---- MODULE Spec2Model ----
(***************************************************************************)
(* State-machine model of the B+Tree of src/src/include/index/btree.h      *)
(* (template BTree<KeyT, ValueT, ComparatorT, PageSize>, instantiated with *)
(* 64-bit unsigned keys and values).                                       *)
(*                                                                         *)
(* A page is the raw content of one buffer frame: the node header (level,  *)
(* count) followed by the two in-page arrays.  The arrays are modelled in  *)
(* full, slots at and beyond `count` included, because the code reads      *)
(* them: InnerNode::lower_bound searches keys[0..count) although only      *)
(* count-1 separators are valid, and the memmove calls of the erase path   *)
(* read one slot past the occupied prefix.                                 *)
(***************************************************************************)
EXTENDS Integers, Sequences, FiniteSets, TLC

(***************************************************************************)
(* Program constants.                                                      *)
(***************************************************************************)
kCapacity == 42

\* std::optional<uint64_t> root without a value; "no frame" (nullptr).
NoPage == -1
\* std::nullopt as the result of lookup.
NoValue == -1
\* The operation did not return: it read memory far outside its frame.
Crashed == -2

Slots == 0 .. (kCapacity - 1)

\* A frame of the buffer pool that was never written: all bytes zero.
ZeroPage ==
    [level |-> 0, count |-> 0, keys |-> [i \in Slots |-> 0], vals |-> [i \in Slots |-> 0]]

(***************************************************************************)
(* Raw array reads.  keys[] is followed in the page by children[]/values[],*)
(* so keys[kCapacity + j] is the j-th slot of the second array and         *)
(* children[-1] is keys[kCapacity - 1]; the bytes after the second array   *)
(* are never written by this code and stay zero.                           *)
(***************************************************************************)
ValRd(p, i) ==
    IF i \in Slots THEN p.vals[i]
    ELSE IF i = -1 THEN p.keys[kCapacity - 1]
    ELSE 0

KeyRd(p, i) ==
    IF i \in Slots THEN p.keys[i] ELSE ValRd(p, i - kCapacity)

\* std::vector built from the first n slots of an array (1-indexed sequence).
Vec(arr, n) == [i \in 1 .. n |-> arr[i - 1]]

\* std::vector::insert(begin() + pos, x)
VecInsert(s, pos, x) == SubSeq(s, 1, pos) \o <<x>> \o SubSeq(s, pos + 1, Len(s))

\* std::copy(vec.begin(), vec.end(), arr), restricted to the first n elements.
CopyBack(arr, s, n) == [i \in Slots |-> IF i < n /\ i < Len(s) THEN s[i + 1] ELSE arr[i]]

(***************************************************************************)
(* Binary search shared by both node kinds (the two bodies are identical   *)
(* in the source).  Result: <<index, flag>>.                               *)
(***************************************************************************)
RECURSIVE BinSearch(_, _, _, _, _)
BinSearch(keys, start, end, key, count) ==
    IF start > end THEN <<count, FALSE>>
    ELSE LET center == start + ((end - start) \div 2) IN
         IF keys[center] = key THEN <<center, TRUE>>
         ELSE IF keys[center] < key THEN BinSearch(keys, center + 1, end, key, count)
         ELSE IF center = 0 \/ keys[center - 1] < key THEN <<center, TRUE>>
         ELSE BinSearch(keys, start, center - 1, key, count)

\* A search that stops at the first key it meets above the searched key.
RECURSIVE BinSearchEager(_, _, _, _, _)
BinSearchEager(keys, start, end, key, count) ==
    IF start > end THEN <<count, FALSE>>
    ELSE LET center == start + ((end - start) \div 2) IN
         IF keys[center] = key THEN <<center, TRUE>>
         ELSE IF keys[center] < key THEN BinSearchEager(keys, center + 1, end, key, count)
         ELSE <<center, TRUE>>

LeafLowerBoundEager(p, key) ==
    IF p.count = 0 THEN <<0, FALSE>>
    ELSE BinSearchEager(p.keys, 0, p.count - 1, key, p.count)

\* InnerNode::lower_bound: searches keys[0..count), the stale slot count-1 included.
InnerLowerBound(p, key) ==
    IF p.count = 0 THEN <<0, FALSE>>
    ELSE BinSearch(p.keys, 0, p.count - 1, key, p.count)

\* LeafNode::lower_bound
LeafLowerBound(p, key) ==
    IF p.count = 0 THEN <<0, FALSE>>
    ELSE BinSearch(p.keys, 0, p.count - 1, key, p.count)

(***************************************************************************)
(* InnerNode                                                               *)
(***************************************************************************)
\* InnerNode::get_key_vector: count-1 separators (none when count = 0).
InnerKeyVector(p) == Vec(p.keys, IF p.count > 0 THEN p.count - 1 ELSE 0)

\* InnerNode::get_child_vector
InnerChildVector(p) == Vec(p.vals, p.count)

\* InnerNode::insert(key, split_page)
InnerInsert(p, key, split_page) ==
    LET lb        == InnerLowerBound(p, key)
        insertPos == lb[1]
        keyExists == lb[2]
        childVec  == InnerChildVector(p)
        keyVec    == InnerKeyVector(p)
        newVecs   ==
            IF p.count = 1 THEN <<keyVec, Append(childVec, split_page)>>
            ELSE IF keyExists THEN
                IF key > p.keys[insertPos] /\ insertPos < p.count
                THEN <<keyVec, [childVec EXCEPT ![insertPos + 1] = split_page]>>
                ELSE <<VecInsert(keyVec, insertPos, key),
                       VecInsert(childVec, insertPos + 1, split_page)>>
            ELSE <<Append(keyVec, key), Append(childVec, split_page)>>
    IN [p EXCEPT !.count = p.count + 1,
                 !.vals  = CopyBack(p.vals, newVecs[2], kCapacity),
                 !.keys  = CopyBack(p.keys, newVecs[1], kCapacity)]

\* InnerNode::split(buffer): <<left, right, separator>>.  The placement new
\* resets only the header of the new page; its arrays keep the frame's bytes.
InnerSplit(p, buf) ==
    LET split_point == p.count \div 2
        split_key   == p.keys[split_point - 1]
        tempNum     == p.count - split_point
        right == [level |-> p.level,
                  count |-> split_point,
                  vals  |-> [i \in Slots |-> IF i < tempNum THEN ValRd(p, split_point + i)
                                             ELSE buf.vals[i]],
                  keys  |-> [i \in Slots |-> IF i < tempNum THEN KeyRd(p, split_point + i)
                                             ELSE buf.keys[i]]]
        left  == [p EXCEPT !.count = split_point]
    IN <<left, right, split_key>>

(***************************************************************************)
(* LeafNode                                                                *)
(***************************************************************************)
\* An insert that puts every new entry behind the occupied prefix.
LeafInsertAtEnd(p, key, value) ==
    [p EXCEPT !.count = p.count + 1,
              !.keys  = [i \in Slots |-> IF i = p.count THEN key ELSE p.keys[i]],
              !.vals  = [i \in Slots |-> IF i = p.count THEN value ELSE p.vals[i]]]

\* LeafNode::insert(key, value), syncArrays included.
LeafInsert(p, key, value) ==
    LET lb        == LeafLowerBound(p, key)
        insertPos == lb[1]
        keyExists == lb[2]
        valueVec  == Vec(p.vals, p.count)
        keyVec    == Vec(p.keys, p.count)
    IN IF keyExists /\ key >= p.keys[insertPos]
       THEN [p EXCEPT !.vals = CopyBack(p.vals, [valueVec EXCEPT ![insertPos + 1] = value],
                                        p.count)]
       ELSE LET kv == IF keyExists THEN VecInsert(keyVec, insertPos, key)
                      ELSE Append(keyVec, key)
                vv == IF keyExists THEN VecInsert(valueVec, insertPos, value)
                      ELSE Append(valueVec, value)
            IN [p EXCEPT !.count = p.count + 1,
                         !.keys  = CopyBack(p.keys, kv, p.count + 1),
                         !.vals  = CopyBack(p.vals, vv, p.count + 1)]

\* LeafNode::locateKeyPosition: <<isKeyPresent, position>>
LocateKeyPosition(p, key) ==
    LET lb  == LeafLowerBound(p, key)
        pos == IF lb[2] THEN lb[1] ELSE p.count - 1
    IN <<lb[2] /\ p.keys[pos] = key, pos>>

\* LeafNode::moveDataToLeftFrom(startIndex): memmove of count - startIndex
\* elements (one more than the occupied suffix), then --count.
MoveDataToLeftFrom(p, startIndex) ==
    LET n == p.count - startIndex
    IN [p EXCEPT !.keys  = [i \in Slots |-> IF i >= startIndex /\ i < startIndex + n
                                            THEN KeyRd(p, i + 1) ELSE p.keys[i]],
                 !.vals  = [i \in Slots |-> IF i >= startIndex /\ i < startIndex + n
                                            THEN ValRd(p, i + 1) ELSE p.vals[i]],
                 !.count = p.count - 1]

\* LeafNode::erase(key)
LeafErase(p, key) ==
    LET loc == LocateKeyPosition(p, key)
    IN IF loc[1] THEN MoveDataToLeftFrom(p, loc[2]) ELSE p

\* A split that returns the key one slot below the one the code returns.
LeafSplitLowSeparator(p, buf) ==
    LET halfPoint    == (p.count - 1) \div 2
        leftCount    == p.count - halfPoint
        separatorKey == p.keys[halfPoint]
        right == [buf EXCEPT
                    !.count = halfPoint,
                    !.vals  = [i \in Slots |-> IF i < halfPoint + 1
                                               THEN ValRd(p, leftCount + i) ELSE buf.vals[i]],
                    !.keys  = [i \in Slots |-> IF i < halfPoint
                                               THEN KeyRd(p, leftCount + i) ELSE buf.keys[i]]]
        left  == [p EXCEPT !.count = leftCount]
    IN <<left, right, separatorKey>>

\* LeafNode::split(buffer) with createAndInitializeLeaf and
\* transferDataToNewLeaf: <<left, right, separator>>.  The new page is only
\* reinterpreted, so its level is whatever the frame holds.
LeafSplit(p, buf) ==
    LET halfPoint    == (p.count - 1) \div 2
        leftCount    == p.count - halfPoint
        separatorKey == p.keys[halfPoint + 1]
        right == [buf EXCEPT
                    !.count = halfPoint,
                    !.vals  = [i \in Slots |-> IF i < halfPoint + 1
                                               THEN ValRd(p, leftCount + i) ELSE buf.vals[i]],
                    !.keys  = [i \in Slots |-> IF i < halfPoint
                                               THEN KeyRd(p, leftCount + i) ELSE buf.keys[i]]]
        left  == [p EXCEPT !.count = leftCount]
    IN <<left, right, separatorKey>>

(***************************************************************************)
(* The page pool (buffer_manager), seen from the tree: the content of      *)
(* every page and the pins currently held.  A page that was never written  *)
(* reads as zero bytes: the tree relies on this for page 0, for every new  *)
(* leaf (whose level is never assigned) and for every new root (whose      *)
(* count is never assigned).                                               *)
(***************************************************************************)
PageRd(pgs, pid) == IF pid \in DOMAIN pgs THEN pgs[pid] ELSE ZeroPage

PageWr(pgs, pid, p) ==
    [q \in (DOMAIN pgs) \cup {pid} |-> IF q = pid THEN p ELSE pgs[q]]

PinCount(pns, pid) == IF pid \in DOMAIN pns THEN pns[pid] ELSE 0

\* The state of one running operation: the tree fields, the pool, the local
\* variables of the operation (cur/par are the page ids behind
\* currentBuffer/parentBuffer) and the trace of its pool calls.
\*   failAt  the ordinal of the fix_page call that throws (0: none does)
\*   wild    what a read 2^32-1 slots past children[] yields: Crashed, or a page id
\*   splits  the splits done so far: the two halves as split left them, the separator
\*   strips  the number of separators remove_from_parent has taken out
\*   ins     for every call of LeafNode::insert or InnerNode::insert, the count
\*           of the node at the time of the call
\*   minted  the page ids taken from next_page_id, in order
\*   unpinned  the pages whose content was read or written while the
\*           operation held no pin on them, in order
NewRun(pgs, rt, npi, pns, failAt, wild) ==
    [pages |-> pgs, root |-> rt, npi |-> npi, pins |-> pns,
     cur |-> NoPage, par |-> NoPage, curDirty |-> FALSE, parDirty |-> FALSE,
     fix |-> <<>>, rel |-> <<>>, nfix |-> 0, failAt |-> failAt, fault |-> FALSE,
     wild |-> wild, wildRead |-> FALSE, crash |-> FALSE, result |-> NoValue,
     splits |-> <<>>, strips |-> 0, ins |-> <<>>, minted |-> <<>>, unpinned |-> <<>>]

\* buffer_manager.fix_page(pid, exclusive): pins the page, or throws.
FixPage(st, pid, exclusive) ==
    IF st.failAt = st.nfix + 1
    THEN [st EXCEPT !.nfix = @ + 1, !.fault = TRUE]
    ELSE [st EXCEPT !.nfix = @ + 1,
                    !.fix  = Append(@, <<pid, exclusive>>),
                    !.pins = [q \in (DOMAIN @) \cup {pid} |->
                                 IF q = pid THEN PinCount(@, q) + 1 ELSE @[q]]]

\* buffer_manager.unfix_page(frame, dirty)
UnfixPage(st, pid, dirty) ==
    [st EXCEPT !.rel  = Append(@, <<pid, dirty>>),
               !.pins = [q \in {r \in DOMAIN @ : r # pid \/ @[r] > 1} |->
                            IF q = pid THEN @[q] - 1 ELSE @[q]]]

\* An access to the content of page pid through the pointer get_data() gave.
Touch(st, pid) ==
    IF PinCount(st.pins, pid) = 0 THEN [st EXCEPT !.unpinned = Append(@, pid)] ELSE st

(***************************************************************************)
(* BTree::lookup                                                           *)
(***************************************************************************)
\* The child-selection rule shared by lookup, navigate_to_child and insert:
\* the index lower_bound returns, or count - 1 when its flag is false.
ChildIndex(node, key) ==
    LET lb == InnerLowerBound(node, key)
    IN IF lb[2] THEN lb[1] ELSE node.count - 1

\* lookup, lines 313-317: the search in the leaf.
LeafFind(leaf, key) ==
    LET lb == LeafLowerBound(leaf, key)
    IN IF lb[2] /\ leaf.keys[lb[1]] = key THEN leaf.vals[lb[1]] ELSE NoValue

\* A lookup that releases its pages as modified.
LookupUnfixDirty(st, pid) == UnfixPage(st, pid, TRUE)

\* lookup, lines 308 and 315: unfix_page(*currentFrame, false)
LookupUnfix(st, pid) == UnfixPage(st, pid, FALSE)

RECURSIVE LookupLoop(_, _)
LookupLoop(st0, key) ==
    LET st   == Touch(st0, st0.cur)
        node == PageRd(st.pages, st.cur) IN
    IF node.level = 0
    THEN \* lower_bound, unfix_page, and then keys[valueIdx] when the flag is set
         LET s1 == LookupUnfix(st, st.cur)
             s2 == IF LeafLowerBound(node, key)[2] THEN Touch(s1, st.cur) ELSE s1
         IN [s2 EXCEPT !.result = LeafFind(node, key)]
    ELSE LET idx  == ChildIndex(node, key)
             \* idx is a uint32_t: count - 1 = -1 becomes 2^32 - 1
             far  == idx = -1
         IN IF far /\ (st.wild = Crashed \/ st.wildRead)
            THEN [st EXCEPT !.crash = TRUE, !.result = Crashed]
            ELSE LET nextPageId == IF far THEN st.wild ELSE node.vals[idx]
                     s1 == FixPage([st EXCEPT !.wildRead = @ \/ far], nextPageId, FALSE)
                 IN IF s1.fault THEN s1
                    ELSE LookupLoop([LookupUnfix(s1, st.cur) EXCEPT !.cur = nextPageId], key)

LookupRun(st, key) ==
    IF st.root = NoPage THEN st
    ELSE LET s1 == FixPage(st, st.root, FALSE)
         IN IF s1.fault THEN s1 ELSE LookupLoop([s1 EXCEPT !.cur = st.root], key)

(***************************************************************************)
(* BTree::erase                                                            *)
(***************************************************************************)
\* remove_from_parent: strips keys[parentIdx] and children[parentIdx] when the
\* separator found equals the erased key.  Both memmove calls move
\* count - parentIdx elements.
RemoveFromParent(parentNode, key) ==
    LET lb        == InnerLowerBound(parentNode, key)
        parentIdx == lb[1]
        temp      == parentNode.count - parentIdx
    IN IF lb[2] /\ parentNode.keys[parentIdx] = key
       THEN [parentNode EXCEPT
               !.keys  = [i \in Slots |-> IF i >= parentIdx /\ i < parentIdx + temp
                                          THEN KeyRd(parentNode, i + 1) ELSE parentNode.keys[i]],
               !.vals  = [i \in Slots |-> IF i >= parentIdx /\ i < parentIdx + temp
                                          THEN ValRd(parentNode, i + 1) ELSE parentNode.vals[i]],
               !.count = parentNode.count - 1]
       ELSE parentNode

RECURSIVE EraseLoop(_, _)
EraseLoop(st0, key) ==
    LET st   == Touch(st0, st0.cur)
        node == PageRd(st.pages, st.cur) IN
    IF node.level = 0
    THEN LET leaf == LeafErase(node, key)
             s1   == [st EXCEPT !.pages = PageWr(@, st.cur, leaf)]
             par  == PageRd(s1.pages, st.par)
             s2   == IF leaf.count <= 0 /\ st.par # NoPage
                     THEN [Touch(s1, st.par) EXCEPT
                                     !.pages = PageWr(@, st.par, RemoveFromParent(par, key)),
                                     !.strips = IF RemoveFromParent(par, key) # par
                                                THEN @ + 1 ELSE @]
                     ELSE s1
         IN UnfixPage(s2, st.cur, TRUE)
    ELSE \* parent = current; current = navigate_to_child(key, current)
         LET childIdx == ChildIndex(node, key)
             far      == childIdx = -1
         IN IF far /\ (st.wild = Crashed \/ st.wildRead)
            THEN [st EXCEPT !.crash = TRUE, !.result = Crashed]
            ELSE LET nextPage == IF far THEN st.wild ELSE node.vals[childIdx]
                     s1 == UnfixPage([st EXCEPT !.wildRead = @ \/ far], st.cur, FALSE)
                     s2 == FixPage(s1, nextPage, FALSE)
                 IN IF s2.fault THEN s2
                    ELSE EraseLoop([s2 EXCEPT !.par = st.cur, !.cur = nextPage], key)

EraseRun(st, key) ==
    IF st.root = NoPage THEN st
    ELSE LET s1 == FixPage(st, st.root, FALSE)    \* get_initial_node
         IN IF s1.fault THEN s1 ELSE EraseLoop([s1 EXCEPT !.cur = st.root], key)

(***************************************************************************)
(* BTree::insert                                                           *)
(***************************************************************************)
\* A new root whose level is never assigned.
NewRootNoLevel(st, level, splitKey, oldID, newID, rootDirty) ==
    LET rootID == st.npi
        s1 == FixPage([st EXCEPT !.root = rootID, !.npi = @ + 1,
                                 !.minted = Append(@, rootID)], rootID, TRUE)
    IN IF s1.fault THEN s1
       ELSE LET fresh == PageRd(s1.pages, rootID)
                filled == InnerInsert(InnerInsert(fresh, splitKey, oldID), splitKey, newID)
            IN [s1 EXCEPT !.par = rootID,
                          !.parDirty = IF rootDirty THEN TRUE ELSE @,
                          !.pages = PageWr(@, rootID, filled),
                          !.ins = @ \o <<fresh.count, InnerInsert(fresh, splitKey, oldID).count>>]

\* A new root that lists the new sibling before the old root.
NewRootSwapped(st, level, splitKey, oldID, newID, rootDirty) ==
    LET rootID == st.npi
        s1 == FixPage([st EXCEPT !.root = rootID, !.npi = @ + 1,
                                 !.minted = Append(@, rootID)], rootID, TRUE)
    IN IF s1.fault THEN s1
       ELSE LET fresh == [PageRd(s1.pages, rootID) EXCEPT !.level = level]
                filled == InnerInsert(InnerInsert(fresh, splitKey, newID), splitKey, oldID)
            IN [s1 EXCEPT !.par = rootID,
                          !.parDirty = IF rootDirty THEN TRUE ELSE @,
                          !.pages = PageWr(@, rootID, filled),
                          !.ins = @ \o <<fresh.count, InnerInsert(fresh, splitKey, newID).count>>]

\* Lines 409-418 and 439-447: the separator goes into a new root when there
\* is no parent.  rootDirty is what the branch assigns to parentIsDirty
\* (the inner branch does not assign it).
NewRoot(st, level, splitKey, oldID, newID, rootDirty) ==
    LET rootID == st.npi
        s1 == FixPage([st EXCEPT !.root = rootID, !.npi = @ + 1,
                                 !.minted = Append(@, rootID)], rootID, TRUE)
    IN IF s1.fault THEN s1
       ELSE LET fresh == [PageRd(s1.pages, rootID) EXCEPT !.level = level]
                filled == InnerInsert(InnerInsert(fresh, splitKey, oldID), splitKey, newID)
            IN [s1 EXCEPT !.par = rootID,
                          !.parDirty = IF rootDirty THEN TRUE ELSE @,
                          !.pages = PageWr(@, rootID, filled),
                          !.ins = @ \o <<fresh.count, InnerInsert(fresh, splitKey, oldID).count>>]

\* Lines 419-423 and 448-452: the separator goes into the pinned parent.
IntoParent(st, splitKey, newID) ==
    [Touch(st, st.par) EXCEPT
        !.pages = PageWr(@, st.par, InnerInsert(PageRd(@, st.par), splitKey, newID)),
        !.parDirty = TRUE,
        !.ins = Append(@, PageRd(st.pages, st.par).count)]

\* A continuation that keeps both halves pinned.
ContinueBothPinned(st, key, splitKey, newID) ==
    [st EXCEPT !.cur = IF key >= splitKey THEN newID ELSE @]

\* Lines 426-427 and 454-455: release one half, continue with the other.
ContinueAfterSplit(st, key, splitKey, newID) ==
    LET s1 == UnfixPage(st, IF key < splitKey THEN newID ELSE st.cur, st.curDirty)
    IN [s1 EXCEPT !.cur = IF key >= splitKey THEN newID ELSE @]

\* A test that still lets a leaf of kCapacity entries take one more.
LeafHasRoomLate(leaf) == leaf.count <= 42

\* Line 393: if (leaf->count < 42)
LeafHasRoom(leaf) == leaf.count < 42

\* Lines 402-405: a page for the new leaf is minted and fixed, and the full
\* leaf st.cur is split into it.
SplitLeaf(st) ==
    LET newLeafID == st.npi
        s1 == FixPage([st EXCEPT !.npi = @ + 1, !.minted = Append(@, newLeafID)],
                      newLeafID, TRUE)
        sp == LeafSplit(PageRd(st.pages, st.cur), PageRd(s1.pages, newLeafID))
    IN IF s1.fault THEN s1
       ELSE [s1 EXCEPT !.pages = PageWr(PageWr(@, st.cur, sp[1]), newLeafID, sp[2]),
                       !.curDirty = TRUE,
                       !.splits = Append(@, sp)]

RECURSIVE InsertLoop(_, _, _)
InsertLoop(st0, key, value) ==
    LET st   == Touch(st0, st0.cur)
        node == PageRd(st.pages, st.cur) IN
    IF node.level = 0 THEN
        IF LeafHasRoom(node)
        THEN LET s1 == [st EXCEPT !.pages = PageWr(@, st.cur, LeafInsert(node, key, value)),
                                  !.curDirty = TRUE,
                                  !.ins = Append(@, node.count)]
                 s2 == UnfixPage(s1, st.cur, TRUE)
             IN IF st.par # NoPage THEN UnfixPage(s2, st.par, st.parDirty) ELSE s2
        ELSE LET newLeafID == st.npi
                 s2 == SplitLeaf(st)
             IN IF s2.fault THEN s2
                ELSE LET sp == s2.splits[Len(s2.splits)]
                         s3 == IF s2.par = NoPage
                               THEN NewRoot(s2, 1, sp[3], s2.root, newLeafID, TRUE)
                               ELSE IntoParent(s2, sp[3], newLeafID)
                     IN IF s3.fault THEN s3
                        ELSE InsertLoop(ContinueAfterSplit(s3, key, sp[3], newLeafID),
                                        key, value)
    ELSE
        IF node.count = 42
        THEN LET newInnerID == st.npi
                 s1 == FixPage([st EXCEPT !.npi = @ + 1, !.minted = Append(@, newInnerID)],
                               newInnerID, TRUE)
             IN IF s1.fault THEN s1
                ELSE LET sp == InnerSplit(node, PageRd(s1.pages, newInnerID))
                         s2 == [s1 EXCEPT !.pages = PageWr(PageWr(@, st.cur, sp[1]),
                                                           newInnerID, sp[2]),
                                          !.curDirty = TRUE,
                                          !.splits = Append(@, sp)]
                         s3 == IF s2.par = NoPage
                               THEN NewRoot(s2, node.level + 1, sp[3], s2.root, newInnerID,
                                            FALSE)
                               ELSE IntoParent(s2, sp[3], newInnerID)
                     IN IF s3.fault THEN s3
                        ELSE InsertLoop(ContinueAfterSplit(s3, key, sp[3], newInnerID),
                                        key, value)
        ELSE \* children[inner->count - 1] with count = 0 is children[-1]
             LET childID == ValRd(node, ChildIndex(node, key))
                 s1 == IF st.par # NoPage THEN UnfixPage(st, st.par, st.parDirty) ELSE st
                 s2 == FixPage([s1 EXCEPT !.par = st.cur], childID, TRUE)
             IN IF s2.fault THEN s2
                ELSE InsertLoop([s2 EXCEPT !.cur = childID], key, value)

\* An insert that starts the page numbering over on every call.
InsertRunRenumbering(st, key, value) ==
    LET s0 == [st EXCEPT !.root = IF @ = NoPage THEN 0 ELSE @, !.npi = 1]
        s1 == FixPage(s0, s0.root, TRUE)
    IN IF s1.fault THEN s1 ELSE InsertLoop([s1 EXCEPT !.cur = s0.root], key, value)

InsertRun(st, key, value) ==
    LET s0 == IF st.root = NoPage THEN [st EXCEPT !.root = 0, !.npi = 1] ELSE st
        s1 == FixPage(s0, s0.root, TRUE)
    IN IF s1.fault THEN s1 ELSE InsertLoop([s1 EXCEPT !.cur = s0.root], key, value)

(***************************************************************************)
(* Bounds of the workload: the sequences of calls the tree receives.       *)
(*   "mixed": the keys 0..MaxKey other than HotKey are inserted for the    *)
(*            first time in increasing order, until the first erase and    *)
(*            again once every key has been erased.  HotKey (the key that  *)
(*            lands on the split index of the first leaf) is inserted, for *)
(*            the first time or again, at any time before the first erase  *)
(*            and, after it, while no smaller key is present.  Once the    *)
(*            first leaf has been filled the caller also erases the        *)
(*            smallest present key (so that leaves run empty) and key 0,   *)
(*            present or not.                                              *)
(*   "asc":   the keys 0..MaxAsc in increasing order.                      *)
(*   "desc":  the keys MaxBulk..0 in decreasing order, long enough to fill *)
(*            and split an inner root.                                     *)
(*   "zig":   the keys 0..MaxZig from both ends inwards: 0, MaxZig, 1, ... *)
(*   "churn": the keys 0..MaxChurn in increasing order; when the tree has  *)
(*            three leaves (ChurnAt keys inserted) the caller erases the   *)
(*            smallest present key any number of times, so that leaves run *)
(*            empty while other leaves are in use, and then goes on        *)
(*            inserting.                                                   *)
(*   "plain": the keys 0..MaxPlain in increasing order, with erases of key *)
(*            0; the workload under which fix_page may throw.              *)
(***************************************************************************)
MaxKey == 43
MaxAsc == 130
MaxBulk == 850
MaxZig == 150
MaxPlain == 45
MaxChurn == 87
HotKey == ((kCapacity - 1) \div 2) + 1
\* The number of increasing keys after which the second leaf has split.
ChurnAt == kCapacity + HotKey + 2

\* The value the caller passes with key k in its i-th variant.
MkVal(k, i) == (k + 1) * 100 + i

VARIABLES
    root,           \* BTree::root (NoPage: no value)
    next_page_id,   \* BTree::next_page_id
    pages,          \* page id -> content, for the pages written so far
    pins,           \* page id -> number of pins held, for the pinned pages
    last,           \* the last operation: its input, result and pool calls
    ref,            \* the reference map: key -> value, for the keys present
    run,            \* the number of first-time inserts done so far
    hist,           \* whether the history has an erase, an insert of a present key;
                    \* the set of page ids minted so far
    mode,           \* the workload
    proc            \* the two operations that run concurrently: what each has
                    \* reached (pc) and its local variables

vars == <<root, next_page_id, pages, pins, last, ref, run, hist, mode, proc>>

EmptyMap == [q \in {} |-> 0]

Idle == [op |-> "none", key |-> 0, value |-> NoValue, result |-> NoValue,
         fix |-> <<>>, rel |-> <<>>, splits |-> <<>>, strips |-> 0, ins |-> <<>>,
         minted |-> <<>>, unpinned |-> <<>>,
         fault |-> FALSE, crash |-> FALSE]

\* No operation is in progress.
IdleInsert == [pc |-> "idle", key |-> 0, value |-> NoValue, rootRead |-> NoPage, st |-> <<>>]
IdleLookup == [pc |-> "idle", key |-> 0, expect |-> NoValue, next |-> NoPage, cur |-> NoPage,
               idx |-> 0, found |-> FALSE, result |-> NoValue]
NoProcs == [ins |-> IdleInsert, lk |-> IdleLookup]

\* BTree::BTree
InitTree ==
    /\ root = NoPage
    /\ next_page_id = 1
    /\ pages = EmptyMap
    /\ pins = EmptyMap
    /\ last = Idle
    /\ ref = EmptyMap
    /\ run = 0
    /\ hist = [erased |-> FALSE, upserted |-> FALSE, minted |-> {}]
    /\ proc = NoProcs

Init == InitTree /\ mode \in {"mixed", "asc", "desc", "zig", "churn"}

Running == ~last.fault /\ ~last.crash

Present == DOMAIN ref
MinPresent == {k \in Present : \A j \in Present : k <= j}

\* The key of the next first-time insert of the workload, and the last one's index.
RunKey ==
    CASE mode = "mixed" -> IF run < HotKey THEN run ELSE run + 1
      [] mode = "asc"   -> run
      [] mode = "churn" -> run
      [] mode = "plain" -> run
      [] mode = "desc"  -> MaxBulk - run
      [] mode = "zig"   -> IF run % 2 = 0 THEN run \div 2 ELSE MaxZig - (run \div 2)
RunLimit ==
    CASE mode = "mixed" -> MaxKey - 1
      [] mode = "asc"   -> MaxAsc
      [] mode = "churn" -> MaxChurn
      [] mode = "plain" -> MaxPlain
      [] mode = "desc"  -> MaxBulk
      [] mode = "zig"   -> MaxZig
\* Every key the workload can pass, and one more.
KeyMax == IF mode = "desc" THEN MaxBulk + 1 ELSE RunLimit + 2
Keys == 0 .. KeyMax

InsertKeys ==
    {k \in {RunKey} : run <= RunLimit /\ ((hist.erased /\ mode # "churn") => Present = {})}
        \cup {k \in {HotKey} : mode = "mixed" /\ (hist.erased => \A j \in Present : k <= j)}
\* A first-time insert passes the key's first value, a repeated one either of two.
Variants(k) == IF k = RunKey THEN {1} ELSE {1, 2}
EraseKeys ==
    IF mode = "mixed" /\ (hist.erased \/ Present = {} \/ Cardinality(Present) >= kCapacity)
    THEN {0} \cup MinPresent
    ELSE IF mode = "plain" THEN {0}
    ELSE IF mode = "churn" /\ run = ChurnAt THEN MinPresent ELSE {}
LookupKeys ==
    {k \in {0, RunKey} \cup (IF mode = "mixed" THEN {HotKey} ELSE {})
                       \cup (IF mode = "desc" THEN {MaxBulk} ELSE {}) : k \in Keys}

\* What a read of children[2^32 - 1] can yield: a crash, or any page id
\* (of a page in use, or of a page never written).
EmptyInner == \E q \in DOMAIN pages : pages[q].level > 0 /\ pages[q].count = 0
WildOutcomes == IF EmptyInner THEN {Crashed} \cup (0 .. next_page_id) ELSE {Crashed}

Start(failAt, wild) == NewRun(pages, root, next_page_id, pins, failAt, wild)

Done(st, name, key, value) ==
    [op |-> name, key |-> key, value |-> value, result |-> st.result,
     fix |-> st.fix, rel |-> st.rel, splits |-> st.splits, strips |-> st.strips,
     ins |-> st.ins, minted |-> st.minted, unpinned |-> st.unpinned,
     fault |-> st.fault, crash |-> st.crash]

\* The state an insert(k, MkVal(k, i)) leaves when its run ended as st.
InsertDone(st, k, i, failAt) ==
    /\ Running
    /\ (failAt > 0) = st.fault
    /\ root' = st.root
    /\ next_page_id' = st.npi
    /\ pages' = st.pages
    /\ pins' = st.pins
    /\ last' = Done(st, "insert", k, MkVal(k, i))
    /\ ref' = [j \in Present \cup {k} |-> IF j = k THEN MkVal(k, i) ELSE ref[j]]
    /\ run' = IF k = RunKey THEN run + 1 ELSE run
    /\ hist' = [hist EXCEPT !.upserted = @ \/ k \in Present,
                             !.minted = @ \cup {st.minted[j] : j \in 1 .. Len(st.minted)}]
    /\ UNCHANGED <<mode, proc>>

\* insert(key, value) with the failAt-th fix_page throwing (0: none).
DoInsert(k, i, failAt) ==
    InsertDone(InsertRun(Start(failAt, Crashed), k, MkVal(k, i)), k, i, failAt)

\* The state an erase(k) leaves when its run ended as st.
EraseDone(st, k, failAt) ==
    /\ Running
    /\ (failAt > 0) = st.fault
    /\ root' = st.root
    /\ next_page_id' = st.npi
    /\ pages' = st.pages
    /\ pins' = st.pins
    /\ last' = Done(st, "erase", k, NoValue)
    /\ ref' = [j \in Present \ {k} |-> ref[j]]
    /\ hist' = [hist EXCEPT !.erased = TRUE]
    /\ UNCHANGED <<run, mode, proc>>

\* erase(key)
DoErase(k, wild, failAt) == EraseDone(EraseRun(Start(failAt, wild), k), k, failAt)

\* The state a lookup(k) leaves when its run ended as st.
LookupDone(st, k, failAt) ==
    /\ Running
    /\ (failAt > 0) = st.fault
    /\ root' = st.root
    /\ next_page_id' = st.npi
    /\ pages' = st.pages
    /\ pins' = st.pins
    /\ last' = Done(st, "lookup", k, NoValue)
    /\ UNCHANGED <<ref, run, hist, mode, proc>>

\* lookup(key)
DoLookup(k, wild, failAt) == LookupDone(LookupRun(Start(failAt, wild), k), k, failAt)

Insert == \E k \in InsertKeys : \E i \in Variants(k) : DoInsert(k, i, 0)
Erase == \E k \in EraseKeys : \E w \in WildOutcomes : DoErase(k, w, 0)
Lookup == \E k \in LookupKeys : \E w \in WildOutcomes : DoLookup(k, w, 0)

Next == Insert \/ Erase \/ Lookup

Spec == Init /\ [][Next]_vars

(***************************************************************************)
(* The same tree over a page pool whose fix_page may throw (the pool is    *)
(* out of frames, or the read fails).  The exception leaves the operation  *)
(* at the throwing call; nothing in btree.h catches it.  The operation     *)
(* that faulted is the last one of the behaviour.                          *)
(***************************************************************************)
MaxFix == 4

InsertFault == \E k \in InsertKeys : \E f \in 1 .. MaxFix : DoInsert(k, 1, f)
EraseFault == \E k \in EraseKeys : \E f \in 1 .. MaxFix : DoErase(k, Crashed, f)
LookupFault == \E k \in LookupKeys : \E f \in 1 .. MaxFix : DoLookup(k, Crashed, f)

InitFault == InitTree /\ mode = "plain"

NextFault == Insert \/ Erase \/ Lookup \/ InsertFault \/ EraseFault \/ LookupFault

SpecFault == InitFault /\ [][NextFault]_vars

(***************************************************************************)
(* LeafNode::lower_bound on its own: the root leaf holds any set of keys   *)
(* out of 1..MaxLeafKey (put there by LeafNode::insert), and the function  *)
(* is called with any key from 0 to MaxLeafKey + 1.                        *)
(***************************************************************************)
MaxLeafKey == 6

RECURSIVE InsertAll(_, _)
InsertAll(leaf, S) ==
    IF S = {} THEN leaf
    ELSE LET x == CHOOSE y \in S : \A z \in S : z <= y
         IN LeafInsert(InsertAll(leaf, S \ {x}), x, MkVal(x, 1))

InitLeaf ==
    \E S \in SUBSET (1 .. MaxLeafKey) :
        /\ root = 0
        /\ next_page_id = 1
        /\ pages = [q \in {0} |-> InsertAll(ZeroPage, S)]
        /\ pins = EmptyMap
        /\ last = Idle
        /\ ref = [k \in S |-> MkVal(k, 1)]
        /\ run = Cardinality(S)
        /\ hist = [erased |-> FALSE, upserted |-> FALSE, minted |-> {}]
        /\ mode = "leaf"
        /\ proc = NoProcs

\* leaf->lower_bound(k) on the root leaf
LowerBound ==
    \E k \in 0 .. (MaxLeafKey + 1) :
        /\ last' = [Idle EXCEPT !.op = "lower_bound", !.key = k,
                                !.result = LeafLowerBound(pages[0], k)]
        /\ UNCHANGED <<root, next_page_id, pages, pins, ref, run, hist, mode, proc>>

NextLeaf == LowerBound

SpecLeaf == InitLeaf /\ [][NextLeaf]_vars

(***************************************************************************)
(* One insert and one lookup running concurrently on a tree whose root is  *)
(* a leaf, over a page pool that grants a shared pin to fix_page(id, false)*)
(* while no exclusive pin is held on the page, and an exclusive pin to     *)
(* fix_page(id, true) while no pin at all is held on it.  `root` and       *)
(* next_page_id are plain members, read and written without any latch.     *)
(* A step of an operation runs from one fix_page call (where it may have   *)
(* to wait) up to the next access the other operation can observe: the     *)
(* next fix_page call, the assignment to root, or a read of a page the     *)
(* operation has already released.  The caller inserts the keys 0, 1, ...  *)
(* in increasing order, up to the insert that splits the root leaf, and    *)
(* looks up the smallest and the largest key inserted so far.              *)
(***************************************************************************)
\* The pages the insert holds exclusively while it waits for its new root.
InsertHolds ==
    IF proc.ins.pc = "newroot" THEN {proc.ins.rootRead, proc.ins.st.minted[1]} ELSE {}
\* The page the lookup holds shared while it waits for the next one.
LookupHolds ==
    IF proc.lk.pc = "fix" /\ proc.lk.cur # NoPage THEN {proc.lk.cur} ELSE {}

\* insert, lines 375-378: the empty tree gets root 0; the root id is read.
InsertBegin ==
    /\ proc.ins.pc = "idle"
    /\ root = NoPage \/ PageRd(pages, root).level = 0
    /\ root' = IF root = NoPage THEN 0 ELSE root
    /\ next_page_id' = IF root = NoPage THEN 1 ELSE next_page_id
    /\ proc' = [proc EXCEPT !.ins = [IdleInsert EXCEPT !.pc = "fix", !.key = run,
                                                       !.value = MkVal(run, 1),
                                                       !.rootRead = root']]
    /\ UNCHANGED <<pages, pins, last, ref, run, hist, mode>>

\* What a finished insert leaves behind.
InsertEnd(st) ==
    /\ pages' = st.pages
    /\ pins' = st.pins
    /\ last' = Done(st, "insert", proc.ins.key, proc.ins.value)
    /\ ref' = [j \in Present \cup {proc.ins.key} |->
                  IF j = proc.ins.key THEN proc.ins.value ELSE ref[j]]
    /\ run' = run + 1
    /\ hist' = [hist EXCEPT !.minted = @ \cup {st.minted[j] : j \in 1 .. Len(st.minted)}]
    /\ proc' = [proc EXCEPT !.ins = IdleInsert]
    /\ mode' = mode

\* insert, line 380 onwards: the root page is fixed exclusively.  A leaf with
\* room takes the entry and the insert returns (lines 393-400).  A full leaf
\* is split into a new page and the id of the new root is assigned to root
\* (lines 402-411); the new root's page is not fixed yet.
InsertFixRoot ==
    /\ proc.ins.pc = "fix"
    /\ proc.ins.rootRead \notin LookupHolds
    /\ LET s0 == NewRun(pages, root, next_page_id, pins, 0, Crashed)
           s1 == [FixPage(s0, proc.ins.rootRead, TRUE) EXCEPT !.cur = proc.ins.rootRead]
       IN IF LeafHasRoom(PageRd(pages, proc.ins.rootRead))
          THEN /\ InsertEnd(InsertLoop(s1, proc.ins.key, proc.ins.value))
               /\ UNCHANGED <<root, next_page_id>>
          ELSE /\ pages' = SplitLeaf(s1).pages
               /\ pins' = SplitLeaf(s1).pins
               /\ root' = SplitLeaf(s1).npi
               /\ next_page_id' = SplitLeaf(s1).npi + 1
               /\ proc' = [proc EXCEPT !.ins.pc = "newroot", !.ins.st = SplitLeaf(s1)]
               /\ UNCHANGED <<last, ref, run, hist, mode>>

\* insert, lines 412-427 and 393-400: the new root's page is fixed exclusively
\* and filled, one half of the split is released, the entry goes into the
\* other, and everything is released.
InsertNewRoot ==
    /\ proc.ins.pc = "newroot"
    /\ root \notin LookupHolds
    /\ LET s2 == [proc.ins.st EXCEPT !.pins = pins]
           sp == s2.splits[1]
           newLeafID == s2.minted[1]
           s3 == NewRoot(s2, 1, sp[3], s2.root, newLeafID, TRUE)
       IN InsertEnd(InsertLoop(ContinueAfterSplit(s3, proc.ins.key, sp[3], newLeafID),
                               proc.ins.key, proc.ins.value))
    /\ UNCHANGED <<root, next_page_id>>

\* The keys the concurrent lookup is called with: present ones.
ConcLookupKeys == {k \in {0, run - 1} : k \in Present}

\* lookup, lines 291-293: the root id is read.
LookupBegin ==
    /\ proc.lk.pc = "idle"
    /\ \E k \in ConcLookupKeys :
          proc' = [proc EXCEPT !.lk =
                      IF root = NoPage
                      THEN [IdleLookup EXCEPT !.pc = "done", !.key = k, !.expect = ref[k]]
                      ELSE [IdleLookup EXCEPT !.pc = "fix", !.key = k, !.expect = ref[k],
                                              !.next = root]]
    /\ UNCHANGED <<root, next_page_id, pages, pins, last, ref, run, hist, mode>>

\* lookup, lines 293 and 306-315: the next page is fixed shared and the page
\* before it released.  In an inner node the child to go to is chosen; in a
\* leaf lower_bound is called and the leaf is released.
LookupFix ==
    /\ proc.lk.pc = "fix"
    /\ proc.lk.next \notin InsertHolds
    /\ LET s0   == NewRun(pages, root, next_page_id, pins, 0, Crashed)
           s1   == FixPage(s0, proc.lk.next, FALSE)
           s2   == IF proc.lk.cur # NoPage THEN LookupUnfix(s1, proc.lk.cur) ELSE s1
           node == PageRd(pages, proc.lk.next)
       IN IF node.level = 0
          THEN /\ pins' = LookupUnfix(s2, proc.lk.next).pins
               /\ proc' = [proc EXCEPT !.lk.pc = "read", !.lk.cur = proc.lk.next,
                                       !.lk.idx = LeafLowerBound(node, proc.lk.key)[1],
                                       !.lk.found = LeafLowerBound(node, proc.lk.key)[2]]
          ELSE IF ChildIndex(node, proc.lk.key) = -1
          THEN /\ pins' = s2.pins
               /\ proc' = [proc EXCEPT !.lk.pc = "done", !.lk.result = Crashed]
          ELSE /\ pins' = s2.pins
               /\ proc' = [proc EXCEPT !.lk.cur = proc.lk.next,
                                       !.lk.next = node.vals[ChildIndex(node, proc.lk.key)]]
    /\ UNCHANGED <<root, next_page_id, pages, last, ref, run, hist, mode>>

\* lookup, line 317: keys[valueIdx] and values[valueIdx] are read from the
\* leaf, which is no longer pinned.
LookupRead ==
    /\ proc.lk.pc = "read"
    /\ LET leaf == PageRd(pages, proc.lk.cur)
       IN proc' = [proc EXCEPT !.lk.pc = "done",
                               !.lk.result =
                                   IF proc.lk.found /\ leaf.keys[proc.lk.idx] = proc.lk.key
                                   THEN leaf.vals[proc.lk.idx] ELSE NoValue]
    /\ UNCHANGED <<root, next_page_id, pages, pins, last, ref, run, hist, mode>>

\* lookup has returned its result to the caller.
LookupEnd ==
    /\ proc.lk.pc = "done"
    /\ last' = [Idle EXCEPT !.op = "lookup", !.key = proc.lk.key, !.result = proc.lk.result]
    /\ proc' = [proc EXCEPT !.lk = IdleLookup]
    /\ UNCHANGED <<root, next_page_id, pages, pins, ref, run, hist, mode>>

InitConc == InitTree /\ mode = "conc"

NextConc ==
    \/ InsertBegin \/ InsertFixRoot \/ InsertNewRoot
    \/ LookupBegin \/ LookupFix \/ LookupRead \/ LookupEnd

SpecConc == InitConc /\ [][NextConc]_vars

(***************************************************************************)
(* Observations used by the properties.                                    *)
(***************************************************************************)
\* What lookup(k) returns on the tree (pgs, rt).
LookupIn(pgs, rt, k) == LookupRun(NewRun(pgs, rt, 0, EmptyMap, 0, Crashed), k).result
LookupVal(k) == LookupIn(pages, root, k)

\* What the reference map holds for k.
RefVal(k) == IF k \in Present THEN ref[k] ELSE NoValue

\* The number of (key, value) entries in the leaves below page pid.
RECURSIVE EntriesBelow(_, _)
RECURSIVE EntriesOfChildren(_, _, _)
EntriesBelow(pgs, pid) ==
    LET node == PageRd(pgs, pid)
    IN IF node.level = 0 THEN node.count ELSE EntriesOfChildren(pgs, node, 0)
EntriesOfChildren(pgs, node, i) ==
    IF i >= node.count THEN 0
    ELSE EntriesBelow(pgs, node.vals[i]) + EntriesOfChildren(pgs, node, i + 1)
Entries(pgs, rt) == IF rt = NoPage THEN 0 ELSE EntriesBelow(pgs, rt)

RootLevel == IF root = NoPage THEN -1 ELSE PageRd(pages, root).level
Returned(l) == ~l.fault /\ ~l.crash
Released(l, pid, dirty) == \E i \in 1 .. Len(l.rel) : l.rel[i] = <<pid, dirty>>
TimesIn(seq, pid) == Cardinality({i \in 1 .. Len(seq) : seq[i][1] = pid})

(***************************************************************************)
(* Properties.                                                             *)
(***************************************************************************)

\* C1 (round trip): while the history consists of inserts of pairwise
\* distinct keys only, lookup(k) returns the inserted value for every key
\* inserted and nothing for every other key.
C1_RoundTrip ==
    (~hist.erased /\ ~hist.upserted) => \A k \in Keys : LookupVal(k) = RefVal(k)

\* C1 witness: distinct keys only, and the root is at level 2 (leaf splits,
\* an inner split and two root promotions have happened) after an insert
\* whose key is found with its value.
C1_Witness ==
    /\ ~hist.erased /\ ~hist.upserted
    /\ RootLevel = 2
    /\ last.op = "insert" /\ LookupVal(last.key) = last.value

\* C2 (upsert): an insert(k, v2) that directly follows an insert(k, v1) makes
\* lookup(k) return v2 and does not increase the number of entries.
C2_Upsert ==
    [][(last.op = "insert" /\ last'.op = "insert" /\ last'.key = last.key /\ Returned(last'))
         => /\ LookupIn(pages', root', last'.key) = last'.value
            /\ Entries(pages', root') <= Entries(pages, root)]_vars

\* C3 (erase removes): after an erase(k) that directly follows an insert(k, v),
\* lookup(k) returns nothing.
C3_EraseRemoves ==
    [][(last.op = "insert" /\ last'.op = "erase" /\ last'.key = last.key /\ Returned(last'))
         => LookupIn(pages', root', last'.key) = NoValue]_vars

\* C4 (erase leaves other keys alone): erase(k) does not change what lookup(j)
\* returns, for every key j other than k.
C4_EraseFrame ==
    [][(last'.op = "erase" /\ Returned(last'))
         => \A j \in Keys \ {last'.key} :
                LookupIn(pages', root', j) = LookupIn(pages, root, j)]_vars

\* C5 (fault cleanup): when fix_page has thrown out of an operation, no page
\* is pinned any more.
C5_FaultCleanup == last.fault => pins = EmptyMap

\* C6 (pin balance): when an operation has returned, every page it fixed was
\* unfixed as often as it was fixed, and no page is pinned.
C6_PinBalance ==
    Returned(last) =>
        /\ pins = EmptyMap
        /\ \A i \in 1 .. Len(last.fix) :
               TimesIn(last.rel, last.fix[i][1]) = TimesIn(last.fix, last.fix[i][1])
        /\ Len(last.rel) = Len(last.fix)

\* C6 witness: an insert into a tree of height 3 that pinned four pages (the
\* root, an inner node, a leaf and the new sibling of a split) has returned
\* with nothing pinned.
C6_Witness ==
    /\ last.op = "insert" /\ Returned(last)
    /\ RootLevel = 2 /\ Len(last.fix) = 4 /\ Len(last.splits) = 1
    /\ pins = EmptyMap

\* C7 (dirty flag): every page whose content an insert or erase changed was
\* released by it, and released as dirty.
C7_DirtyOnModify ==
    [][(last'.op \in {"insert", "erase"} /\ Returned(last'))
         => \A q \in DOMAIN pages' :
                pages'[q] # PageRd(pages, q)
                    => Released(last', q, TRUE) /\ ~Released(last', q, FALSE)]_vars

\* C8 (lookup is read-only): lookup releases every page as clean and leaves
\* root, next_page_id and every page as they were.
C8_LookupReadOnly ==
    [][last'.op = "lookup"
         => /\ pages' = pages /\ root' = root /\ next_page_id' = next_page_id
            /\ \A i \in 1 .. Len(last'.rel) : last'.rel[i][2] = FALSE]_vars

\* C8 witness: a lookup that went through two inner levels and found its key.
C8_Witness ==
    /\ last.op = "lookup" /\ Returned(last)
    /\ Len(last.rel) >= 3 /\ last.result = RefVal(last.key) /\ last.result # NoValue

\* C9 (growth): while nothing has been erased, once more than kCapacity
\* distinct keys have been inserted the root is an inner node.
C9_Growth ==
    (~hist.erased /\ Cardinality(Present) > kCapacity) => RootLevel >= 1

\* C9 witness: the insert of the (kCapacity + 1)-th distinct key has split the
\* root leaf and installed a new inner root.
C9_Witness ==
    /\ ~hist.erased /\ Cardinality(Present) = kCapacity + 1
    /\ last.op = "insert" /\ Len(last.splits) = 1
    /\ RootLevel = 1 /\ root # 0

\* The keys of a node as split left it: the entries of a leaf, the
\* separators of an inner node.
NodeKeys(node) ==
    {node.keys[i] : i \in 0 .. ((IF node.level = 0 THEN node.count ELSE node.count - 1) - 1)}

\* C10 (separator ordering): for every split an insert performed, every key of
\* the left node is below the separator and no key of the right node is.
C10_SplitOrder ==
    \A i \in 1 .. Len(last.splits) :
        /\ \A a \in NodeKeys(last.splits[i][1]) : a < last.splits[i][3]
        /\ \A b \in NodeKeys(last.splits[i][2]) : last.splits[i][3] <= b

\* The number of keys a node holds: the entries of a leaf, the separators
\* (one less than the children) of an inner node.
KeyCount(node) == IF node.level = 0 THEN node.count ELSE node.count - 1

\* C11 (order preservation): in every state, the keys keys[0..count) of
\* every leaf and the separators keys[0..count-1) of every inner node are
\* strictly increasing.
C11_OrderPreserved ==
    \A q \in DOMAIN pages :
        \A i \in 1 .. (KeyCount(pages[q]) - 1) : pages[q].keys[i - 1] < pages[q].keys[i]

\* C11 witness: after erases that took a separator out of the root, an
\* insert has split a leaf and put a second separator into the root.
C11_Witness ==
    /\ hist.erased /\ last.op = "insert" /\ Len(last.splits) = 1
    /\ RootLevel = 1 /\ PageRd(pages, root).count = 3
    /\ \E q \in DOMAIN pages : pages[q].level = 0 /\ pages[q].count = kCapacity \div 2

\* C12 (capacity bound): no node holds more than kCapacity entries or
\* children, and every call of LeafNode::insert or InnerNode::insert the last
\* operation made was on a node whose count was below kCapacity.
C12_CapacityBound ==
    /\ \A q \in DOMAIN pages : pages[q].count <= kCapacity
    /\ \A i \in 1 .. Len(last.ins) : last.ins[i] < kCapacity

\* C12 witness: below a root with three or more children, an insert has put
\* the last entry that fits into a leaf.
C12_Witness ==
    /\ last.op = "insert" /\ last.ins = <<kCapacity - 1>>
    /\ RootLevel = 1 /\ PageRd(pages, root).count >= 3
    /\ \E q \in DOMAIN pages : pages[q].level = 0 /\ pages[q].count = kCapacity

\* C13 (fresh page identifiers): no operation decreases next_page_id; every
\* page id an insert mints is different from 0 and from every id minted
\* before; afterwards the root and every child id stored in an inner node are
\* below next_page_id.
C13_FreshPageIds ==
    [][/\ next_page_id' >= next_page_id
       /\ \A i \in 1 .. Len(last'.minted) :
              /\ last'.minted[i] # 0
              /\ last'.minted[i] \notin hist.minted
              /\ \A j \in 1 .. Len(last'.minted) : j # i => last'.minted[j] # last'.minted[i]
       /\ root' # NoPage => root' < next_page_id'
       /\ \A q \in DOMAIN pages' :
              pages'[q].level > 0 =>
                  \A i \in 0 .. (pages'[q].count - 1) : pages'[q].vals[i] < next_page_id']_vars

\* C13 witness: an insert has minted two page ids in one call, for the sibling
\* of a split inner root and for the new root above both.
C13_Witness ==
    /\ last.op = "insert" /\ Len(last.minted) = 2
    /\ RootLevel = 2 /\ root = last.minted[2]
    /\ Cardinality(hist.minted) = next_page_id - 1

\* C14 (root promotion shape): an insert that finds the root full splits it
\* and installs a new root: a page with a new id, one level above the old
\* root, with two children, the old root and the new sibling in this order,
\* and the split's separator as its only key.
C14_RootPromotion ==
    [][(/\ last'.op = "insert" /\ Returned(last')
        /\ root # NoPage /\ PageRd(pages, root).count = kCapacity)
         => /\ Len(last'.splits) >= 1 /\ Len(last'.minted) >= 2
            /\ root' = last'.minted[2] /\ root' # root
            /\ PageRd(pages', root').level = PageRd(pages, root).level + 1
            /\ PageRd(pages', root').count = 2
            /\ PageRd(pages', root').keys[0] = last'.splits[1][3]
            /\ PageRd(pages', root').vals[0] = root
            /\ PageRd(pages', root').vals[1] = last'.minted[1]]_vars

\* C14 witness: an insert has split an inner root and put a root of level 2
\* with two children above the halves.
C14_Witness ==
    /\ last.op = "insert" /\ Returned(last) /\ Len(last.splits) >= 1
    /\ last.splits[1][1].level = 1
    /\ PageRd(pages, root).level = 2 /\ PageRd(pages, root).count = 2
    /\ PageRd(pages, root).vals[1] = last.minted[1]

\* The first index of the leaf whose key is not below k; count when there is none.
FirstNotLess(leaf, k) ==
    LET c == {i \in 0 .. (leaf.count - 1) : leaf.keys[i] >= k}
    IN IF c = {} THEN leaf.count ELSE CHOOSE i \in c : \A j \in c : i <= j

\* C15 as the code has it (leaf lower_bound): on a leaf with strictly
\* increasing keys, lower_bound(k) returns the first index i whose key is not
\* below k (count when there is none), and its flag tells whether there is
\* such an index, i < count; the key at i may be above k.
C15_LowerBound ==
    last.op = "lower_bound" =>
        last.result = <<FirstNotLess(pages[0], last.key),
                        FirstNotLess(pages[0], last.key) < pages[0].count>>

\* C15 as stated (leaf lower_bound): lower_bound(k) returns the first index i
\* whose key is not below k (count when there is none), and its flag is true
\* exactly when keys[i] = k.
C15_LowerBoundExact ==
    last.op = "lower_bound" =>
        last.result = <<FirstNotLess(pages[0], last.key),
                        /\ FirstNotLess(pages[0], last.key) < pages[0].count
                        /\ pages[0].keys[FirstNotLess(pages[0], last.key)] = last.key>>

\* C15 witness: in a leaf of three or more keys the search has stopped at an
\* inner position whose key is above the searched key, with the flag set.
C15_Witness ==
    /\ last.op = "lower_bound" /\ pages[0].count >= 3
    /\ last.result[2] /\ last.result[1] > 0 /\ last.result[1] < pages[0].count - 1
    /\ pages[0].keys[last.result[1]] > last.key

\* C16 (map refinement under mixed operations): in the workload that inserts
\* new keys and erases present keys in turn, lookup(k) returns what the
\* reference map holds for k, for every key k, after every operation.
C16_MapRefinement ==
    (mode = "churn" /\ Returned(last)) => \A k \in Keys : LookupVal(k) = RefVal(k)

\* C17 (no access without a pin): the last operation read and wrote page
\* contents only while it held a pin on the page.
C17_PinnedAccess == Returned(last) => last.unpinned = <<>>

\* C18 (writes only under exclusive access): every page whose content an
\* insert or erase changed was fixed by that operation with exclusive = true.
C18_ExclusiveWrites ==
    [][(last'.op \in {"insert", "erase"} /\ Returned(last'))
         => \A q \in DOMAIN pages' :
                pages'[q] # PageRd(pages, q)
                    => \E i \in 1 .. Len(last'.fix) : last'.fix[i] = <<q, TRUE>>]_vars

\* C19 (concurrent lookup during root promotion): a lookup(k) that runs while
\* an insert of another key runs, k having been inserted before the lookup
\* started, returns the value k was inserted with.
C19_ConcurrentLookup ==
    proc.lk.pc = "done" => proc.lk.result = proc.lk.expect

====
